---------------------------- MODULE Spec2Model ----------------------------
(***************************************************************************)
(* Request orchestration core of aerith-ingestion (src/mvp/exp):           *)
(*   CircuitBreaker  (backoff_config.py)                                   *)
(*   RateLimiter     (rate_limiter.py)                                     *)
(*   RequestManager  (request_manager.py)                                  *)
(* Each component is a state machine over its own fields; the clock `now`  *)
(* is what time.time() returns.                                            *)
(***************************************************************************)
EXTENDS Integers, Sequences, FiniteSets, TLC

VARIABLES
    now,                \* time.time()
    \* ---- CircuitBreaker fields (backoff_config.py:37-43)
    state, failures, last_failure_time, half_open_calls,
    \* ---- CircuitBreaker observation (history) variables
    cb_ret,             \* value returned by the latest allow_request
    cb_seq,             \* flips on every allow_request call
    cb_consec,          \* record_failure calls since the latest record_success
    cb_probes,          \* allow_request calls that returned true in the
                        \* current half-open episode, the opening one included
    cb_opened_at,       \* time of the latest change of state to Open
    cb_asked_at,        \* time of the latest allow_request
    \* ---- QuotaConfig chosen at construction (rate_limiter.py:21,26)
    requests_per_minute, max_concurrent_requests,
    \* ---- RateLimiter fields (rate_limiter.py:51-64)
    lock,               \* threading.Lock: 0 when free, else the caller holding it
    request_timestamps, last_request_time, cooldown_until,
    recent_requests, active_requests,
    sem_value, sem_waiters,     \* request_semaphore: counter and FIFO of waiters
    \* ---- the coroutines calling wait_for_capacity
    rl_pc,              \* where each caller stands
    rl_prio,            \* the priority it passed
    rl_wake,            \* end of its asyncio.sleep
    rl_via,             \* the wait its latest iteration ended in, "none" before
    rl_blocked,         \* the call in which the event-loop thread is stuck
                        \* inside Lock.acquire(), "none" while it runs
    \* ---- RateLimiter observation (history) variables
    rl_admissions,      \* every admission granted: [t, p, via]
    rl_ret,             \* how the latest finished wait_for_capacity call ended
    rl_calls,           \* wait_for_capacity calls made so far
    rl_cooldowns,       \* start_cooldown calls made so far
    rl_dedup_ret,       \* value returned by the latest check_dedup
    \* ---- RequestManager fields (request_manager.py:118-140) and its cache
    cache,              \* RequestCache.cache: key -> <<timestamp, response>>
    queues,             \* one asyncio.Queue per priority, of request ids
    max_batch_size,     \* self.config.max_batch_size, shared by the loops
    is_running,
    processing_tasks,   \* the _process_batch_loop tasks created so far
    current_latency,    \* the monitor's avg_processing_time, 0 without monitor
    \* ---- the submit_request calls; call r carries request r
    requests,
    \* ---- RequestManager observation (history) variables
    received,           \* ids of the requests handed to the batch processor
    batches,            \* every batch _collect_batch returned: its requests,
                        \* total_tokens, time since its first request was
                        \* pulled, whether the queue was left empty, and
                        \* max_batch_size as it stood
    proc_result,        \* the processor's result for each request handed to it
    \* ---- the call of stop_processing in progress (request_manager.py:184-188)
    stop_pc,            \* "idle" between calls, "gather" at the await
    stop_awaited,       \* the tasks handed to asyncio.gather
    cleared,            \* the tasks processing_tasks.clear() has taken off the
                        \* list: those created first
    stops,              \* stop_processing calls made so far
    \* ---- the decorator BackoffConfig.exponential_backoff(...)(func): its
    \* arguments (backoff_config.py:102-110)
    w_rate_limiter,     \* whether a rate_limiter was passed
    w_max_tries, w_max_time,    \* max_time 0 stands for None
    \* ---- the call of wrapper() in progress (backoff_config.py:116-162)
    w_pc,               \* "idle" between calls, else where the call stands
    w_attempt, w_last_error, w_start_time,
    w_wake,             \* end of its asyncio.sleep(wait)
    \* ---- wrapper observation (history) variables, per call of wrapper()
    w_ret,              \* how the latest finished call ended
    w_calls,            \* calls of wrapper() made so far
    w_outcomes,         \* outcome of each finished attempt of func
    w_waits,            \* the backoff waits slept
    w_recorded,         \* record_success and record_failure calls made
    w_asked             \* wait_for_capacity calls made

cbvars == <<state, failures, last_failure_time, half_open_calls,
            cb_ret, cb_seq, cb_consec, cb_probes, cb_opened_at, cb_asked_at>>
rlvars == <<requests_per_minute, max_concurrent_requests, lock,
            request_timestamps, last_request_time, cooldown_until,
            recent_requests, active_requests, sem_value, sem_waiters,
            rl_pc, rl_prio, rl_wake, rl_via, rl_blocked,
            rl_admissions, rl_ret, rl_calls, rl_cooldowns, rl_dedup_ret>>
rmvars == <<cache, queues, max_batch_size, is_running, processing_tasks,
            current_latency, requests, received, batches, proc_result,
            stop_pc, stop_awaited, cleared, stops>>
stopvars == <<stop_pc, stop_awaited, cleared, stops>>
rwvars == <<w_rate_limiter, w_max_tries, w_max_time, w_pc, w_attempt,
            w_last_error, w_start_time, w_wake, w_ret, w_calls, w_outcomes,
            w_waits, w_recorded, w_asked>>
vars == <<now, cbvars, rlvars, rmvars, rwvars>>

(***************************************************************************)
(* Bounds of the model                                                     *)
(***************************************************************************)
\* time.time() at construction; the fields initialised to 0 / 0.0 lie far
\* in the past of it
Epoch == 100
\* the clock runs from Epoch to Epoch + MaxElapsed
MaxElapsed == 8
\* CircuitBreakerConfig under which the breaker is checked
FailureThreshold == 3
ResetTimeout == 2
HalfOpenMaxCalls == 2
\* record_failure calls beyond the threshold that are explored
MaxExtraFailures == 2

\* RateLimiter: the sliding window of the quota check, in seconds
Window == 60
\* QuotaConfig.__post_init__: the default shares, in percent
ShareHigh == 50
ShareMedium == 30
ShareLow == 20
\* QuotaConfig under which the limiter is checked
RequestsPerMinute == 5
MaxConcurrent == 2
MinDelay == 2
CooldownDuration == 3
DedupWindow == 2
\* coroutines calling wait_for_capacity, and calls made in all
NCallers == 2
MaxCalls == 2
\* start_cooldown calls made in all, and the longest explicit duration
MaxCooldowns == 1
MaxDuration == 1

\* RequestManager: its clock counts tenths of a second.
\* asyncio.sleep(0.1) of _wait_for_result and of the fill loop, and
\* asyncio.sleep(1) after a failed batch
SubmitWait == 1
FillSleep == 1
ErrorSleep == 10
\* the latency thresholds of _collect_batch, 0.5 s and 2.0 s
LowLatency == 5
HighLatency == 20
\* BatchConfig and cache TTL under which the manager is checked
MaxBatchSize == 2
MinBatchSize == 2
MaxWaitTime == 2
MaxTokenLimit == 4
Ttl == 2
\* submit_request calls made in all
MaxRequests == 2
\* submit_request calls made in a burst, all within one tenth of a second
MaxBurst == 3
\* submit_request calls made when the cache is explored
MaxLookups == 2
\* submit_request calls made when deferral is explored
MaxDeferred == 2
\* submit_request and stop_processing calls made when stopping is explored
MaxStopRequests == 2
MaxStops == 1
\* the manager's clock ticks up to Epoch + RMMaxElapsed and, beyond that,
\* moves only to the deadline of a pending sleep
RMMaxElapsed == 4

\* The retry wrapper.  DEFAULT_FACTOR
Factor == 2
\* arguments of exponential_backoff under which the wrapper is checked
MaxTries == 4
InitialWait == 1
MaxWait == 3
MaxTime == 2
\* calls of wrapper() made in all
MaxWrapperCalls == 3
\* the wrapper's clock ticks up to Epoch + RWMaxElapsed and, beyond that,
\* moves only to the deadline of a pending sleep
RWMaxElapsed == 3

CLOSED == "closed"
HALF_OPEN == "half_open"
OPEN == "open"

(***************************************************************************)
(* The clock                                                               *)
(***************************************************************************)
Tick ==
    /\ now < Epoch + MaxElapsed
    /\ now' = now + 1
    /\ UNCHANGED <<cbvars, rlvars, rmvars, rwvars>>

(***************************************************************************)
(* CircuitBreaker                                                          *)
(***************************************************************************)
InitCB ==
    /\ state = CLOSED
    /\ failures = 0
    /\ last_failure_time = 0
    /\ half_open_calls = 0
    /\ cb_ret = TRUE
    /\ cb_seq = 0
    /\ cb_consec = 0
    /\ cb_probes = 0
    /\ cb_opened_at = 0
    /\ cb_asked_at = 0

\* record_success: only a half-open breaker reacts
record_success ==
    /\ IF state = HALF_OPEN
          THEN /\ state' = CLOSED
               /\ failures' = 0
               /\ half_open_calls' = 0
          ELSE UNCHANGED <<state, failures, half_open_calls>>
    /\ cb_consec' = 0
    /\ UNCHANGED <<last_failure_time, cb_ret, cb_seq, cb_probes, cb_opened_at,
                   cb_asked_at>>

\* backoff_config.py:59-65 with the half-open branch left out
FailureStateThresholdOnly(s, f) ==
    IF s = CLOSED /\ f >= FailureThreshold THEN OPEN ELSE s

\* the state record_failure leaves, given the incremented counter f
FailureState(s, f) ==
    IF s = HALF_OPEN THEN OPEN
    ELSE IF s = CLOSED /\ f >= FailureThreshold THEN OPEN
    ELSE s

\* backoff_config.py:55 with the time of a failure in Open not taken
FailureTimeKeptWhenOpen == IF state = OPEN THEN last_failure_time ELSE now

\* self.last_failure_time = time.time()
FailureTime == now

record_failure ==
    /\ failures < FailureThreshold + MaxExtraFailures
    /\ failures' = failures + 1
    /\ last_failure_time' = FailureTime
    /\ state' = FailureState(state, failures + 1)
    /\ cb_consec' = cb_consec + 1
    /\ cb_opened_at' = IF state # OPEN /\ state' = OPEN THEN now ELSE cb_opened_at
    /\ UNCHANGED <<half_open_calls, cb_ret, cb_seq, cb_probes, cb_asked_at>>

\* backoff_config.py:74
ResetElapsedStrict == now - last_failure_time > ResetTimeout

ResetElapsed == now - last_failure_time >= ResetTimeout

allow_request ==
    /\ cb_seq' = 1 - cb_seq
    /\ cb_asked_at' = now
    /\ CASE state = CLOSED ->
              /\ cb_ret' = TRUE
              /\ UNCHANGED <<state, half_open_calls, cb_probes>>
         [] state = OPEN /\ ResetElapsed ->
              /\ state' = HALF_OPEN
              /\ half_open_calls' = 0
              /\ cb_ret' = TRUE
              /\ cb_probes' = 1
         [] state = OPEN /\ ~ResetElapsed ->
              /\ cb_ret' = FALSE
              /\ UNCHANGED <<state, half_open_calls, cb_probes>>
         [] state = HALF_OPEN /\ half_open_calls < HalfOpenMaxCalls ->
              /\ half_open_calls' = half_open_calls + 1
              /\ cb_ret' = TRUE
              /\ cb_probes' = cb_probes + 1
              /\ UNCHANGED state
         [] OTHER ->
              /\ cb_ret' = FALSE
              /\ UNCHANGED <<state, half_open_calls, cb_probes>>
    /\ UNCHANGED <<failures, last_failure_time, cb_consec, cb_opened_at>>

(***************************************************************************)
(* RateLimiter.  All callers are coroutines of one event loop: a coroutine *)
(* runs without interruption from one await to the next.  self.lock is a   *)
(* threading.Lock taken with a plain `with`; wait_for_capacity keeps it    *)
(* across its awaits of asyncio.sleep, and an acquire that finds it held   *)
(* blocks the event-loop thread itself.                                    *)
(***************************************************************************)
Callers == 1..NCallers
HIGH == "high"
MEDIUM == "medium"
LOW == "low"
\* QuotaConfig.__post_init__: the default priority_levels, in percent
priority_levels == [high |-> ShareHigh, medium |-> ShareMedium, low |-> ShareLow]
Levels == DOMAIN priority_levels
\* a priority that is no key of priority_levels
Unknown == "urgent"
Sleeping == {"sleep_cooldown", "sleep_quota", "sleep_delay"}
\* the one (endpoint, params) signature and the one result that are cached
Signatures == {"sig"}
\* requests_per_minute is RequestsPerMinute
RpmChoices == {RequestsPerMinute}
NoEntry == <<>>

InitRL ==
    /\ requests_per_minute \in RpmChoices
    /\ max_concurrent_requests \in 1..MaxConcurrent
    /\ lock = 0
    /\ request_timestamps = <<>>
    /\ last_request_time = 0
    /\ cooldown_until = 0
    /\ recent_requests = [h \in Signatures |-> NoEntry]
    /\ active_requests = 0
    /\ sem_value = max_concurrent_requests
    /\ sem_waiters = <<>>
    /\ rl_pc = [c \in Callers |-> "idle"]
    /\ rl_prio = [c \in Callers |-> "none"]
    /\ rl_wake = [c \in Callers |-> 0]
    /\ rl_via = [c \in Callers |-> "none"]
    /\ rl_blocked = "none"
    /\ rl_admissions = <<>>
    /\ rl_ret = "none"
    /\ rl_calls = 0
    /\ rl_cooldowns = 0
    /\ rl_dedup_ret = "None"

\* int(self.config.requests_per_minute * quota_share)
max_requests(p) == (requests_per_minute * priority_levels[p]) \div 100

\* [ts for ts in self.request_timestamps if now - ts < 60]
CleanOld(ts) == SelectSeq(ts, LAMBDA x : now - x < Window)

\* the Python slice ts[-m:]
LastSlice(ts, m) ==
    IF m = 0 \/ m >= Len(ts) THEN ts
    ELSE SubSeq(ts, Len(ts) - m + 1, Len(ts))

\* the Python index ts[-m]; -0 is 0, the first element
HasIndexFromEnd(ts, m) == IF m = 0 THEN Len(ts) >= 1 ELSE m <= Len(ts)
IndexFromEnd(ts, m) == IF m = 0 THEN ts[1] ELSE ts[Len(ts) - m + 1]

\* len([ts for ts in self.request_timestamps[-max_requests:] if now - ts < 60])
priority_requests(ts, m) == Len(CleanOld(LastSlice(ts, m)))

\* rate_limiter.py:122
InCooldownNever == FALSE

InCooldown == now < cooldown_until

\* rate_limiter.py:148
QuotaReachedStrict(n, m) == n > m

QuotaReached(n, m) == n >= m

\* rate_limiter.py:160-163 with the test left out
TooSoonNever == FALSE

\* rate_limiter.py:160-163
TooSoon == now - last_request_time < MinDelay

\* asyncio.Semaphore.acquire returns at once when the counter is positive
\* and nobody is queued before the caller
SemFreeAlways == TRUE

SemFree == sem_value > 0 /\ sem_waiters = <<>>

\* The caller leaves wait_for_capacity with the lock released: the finally
\* clause takes the lock again (it is free), decrements active_requests,
\* and `async with` gives the semaphore slot back.  act and semv are
\* active_requests and the semaphore counter as they stand.
Leave(c, act, semv, result) ==
    /\ lock' = 0
    /\ active_requests' = act - 1
    /\ sem_value' = semv + 1
    /\ rl_pc' = [rl_pc EXCEPT ![c] = "idle"]
    /\ rl_prio' = [rl_prio EXCEPT ![c] = "none"]
    /\ rl_wake' = [rl_wake EXCEPT ![c] = 0]
    /\ rl_via' = [rl_via EXCEPT ![c] = "none"]
    /\ rl_ret' = result

\* The caller awaits asyncio.sleep inside `with self.lock`: it keeps the lock
Sleep(c, p, act, semv, kind, until) ==
    /\ lock' = c
    /\ active_requests' = act
    /\ sem_value' = semv
    /\ rl_pc' = [rl_pc EXCEPT ![c] = kind]
    /\ rl_prio' = [rl_prio EXCEPT ![c] = p]
    /\ rl_wake' = [rl_wake EXCEPT ![c] = until]
    /\ rl_via' = [rl_via EXCEPT ![c] = kind]
    /\ UNCHANGED rl_ret

\* One iteration of `while True:` (rate_limiter.py:117-170) by caller c of
\* priority p, the lock being free; via is the wait it comes from.
Iterate(c, p, via, act, semv) ==
    IF InCooldown
    THEN /\ Sleep(c, p, act, semv, "sleep_cooldown", cooldown_until)
         /\ UNCHANGED <<request_timestamps, last_request_time, rl_admissions>>
    ELSE LET ts == CleanOld(request_timestamps)
             m == max_requests(p)
         IN  IF QuotaReached(priority_requests(ts, m), m)
             THEN /\ request_timestamps' = ts
                  /\ UNCHANGED <<last_request_time, rl_admissions>>
                  /\ IF HasIndexFromEnd(ts, m)
                        THEN Sleep(c, p, act, semv, "sleep_quota",
                                   IndexFromEnd(ts, m) + Window)
                        ELSE Leave(c, act, semv, "IndexError")
             ELSE IF TooSoon
             THEN /\ request_timestamps' = ts
                  /\ Sleep(c, p, act, semv, "sleep_delay", now + MinDelay)
                  /\ UNCHANGED <<last_request_time, rl_admissions>>
             ELSE /\ request_timestamps' = Append(ts, now)
                  /\ last_request_time' = now
                  /\ rl_admissions' = Append(rl_admissions,
                                             [t |-> now, p |-> p, via |-> via])
                  /\ Leave(c, act, semv, "true")

\* The caller has taken a semaphore slot (semv is the counter after that)
\* and reaches `with self.lock: self.active_requests += 1`.  When a sleeping
\* caller holds the lock, the thread blocks in acquire() and the event loop
\* stops; otherwise the caller goes on into its first iteration.
Enter(c, p, semv) ==
    IF lock # 0
    THEN /\ rl_pc' = [rl_pc EXCEPT ![c] = "lock_blocked"]
         /\ rl_prio' = [rl_prio EXCEPT ![c] = p]
         /\ rl_blocked' = "wait_for_capacity"
         /\ sem_value' = semv
         /\ UNCHANGED <<lock, active_requests, request_timestamps,
                        last_request_time, rl_wake, rl_via, rl_ret, rl_admissions>>
    ELSE /\ UNCHANGED rl_blocked
         /\ Iterate(c, p, "none", active_requests + 1, semv)

\* A call of wait_for_capacity(p), run up to its first suspension.  The
\* callers are interchangeable: the call is made by the first idle one.
wait_for_capacity(c, p) ==
    /\ rl_blocked = "none"
    /\ rl_pc[c] = "idle"
    /\ \A d \in Callers : d < c => rl_pc[d] # "idle"
    /\ rl_calls < MaxCalls
    /\ rl_calls' = rl_calls + 1
    /\ UNCHANGED <<requests_per_minute, max_concurrent_requests, cooldown_until,
                   recent_requests, rl_dedup_ret, rl_cooldowns>>
    /\ IF p \notin Levels
       THEN /\ rl_ret' = "ValueError"
            /\ UNCHANGED <<lock, request_timestamps, last_request_time,
                           active_requests, sem_value, sem_waiters, rl_pc, rl_prio,
                           rl_wake, rl_via, rl_blocked, rl_admissions>>
       ELSE IF ~SemFree
       THEN /\ sem_waiters' = Append(sem_waiters, c)
            /\ rl_pc' = [rl_pc EXCEPT ![c] = "sem_wait"]
            /\ rl_prio' = [rl_prio EXCEPT ![c] = p]
            /\ UNCHANGED <<lock, request_timestamps, last_request_time,
                           active_requests, sem_value, rl_wake, rl_via, rl_ret,
                           rl_blocked, rl_admissions>>
       ELSE /\ UNCHANGED sem_waiters
            /\ Enter(c, p, sem_value - 1)

\* release() has woken the first waiter of the semaphore: it takes the slot
SemaphoreGranted(c) ==
    /\ rl_blocked = "none"
    /\ rl_pc[c] = "sem_wait"
    /\ sem_waiters # <<>>
    /\ Head(sem_waiters) = c
    /\ sem_value > 0
    /\ sem_waiters' = Tail(sem_waiters)
    /\ Enter(c, rl_prio[c], sem_value - 1)
    /\ UNCHANGED <<requests_per_minute, max_concurrent_requests, cooldown_until,
                   recent_requests, rl_dedup_ret, rl_calls, rl_cooldowns>>

\* asyncio.sleep is over: `continue` leaves the `with` block, which releases
\* the lock, and the next iteration takes it again
SleepOver(c) ==
    /\ rl_blocked = "none"
    /\ rl_pc[c] \in Sleeping
    /\ now >= rl_wake[c]
    /\ Iterate(c, rl_prio[c], rl_via[c], active_requests, sem_value)
    /\ UNCHANGED <<requests_per_minute, max_concurrent_requests, cooldown_until,
                   recent_requests, rl_dedup_ret, rl_calls, rl_cooldowns,
                   sem_waiters, rl_blocked>>

\* The caller's task is cancelled at its await: CancelledError leaves a
\* sleep through the `with` (lock released) and the finally clause; a
\* caller still queued on the semaphore holds nothing
Cancel(c) ==
    /\ rl_blocked = "none"
    /\ rl_pc[c] \in Sleeping \cup {"sem_wait"}
    /\ IF rl_pc[c] = "sem_wait"
       THEN /\ sem_waiters' = SelectSeq(sem_waiters, LAMBDA x : x # c)
            /\ rl_pc' = [rl_pc EXCEPT ![c] = "idle"]
            /\ rl_prio' = [rl_prio EXCEPT ![c] = "none"]
            /\ rl_ret' = "cancelled"
            /\ UNCHANGED <<lock, active_requests, sem_value, rl_wake, rl_via>>
       ELSE /\ Leave(c, active_requests, sem_value, "cancelled")
            /\ UNCHANGED sem_waiters
    /\ UNCHANGED <<requests_per_minute, max_concurrent_requests, cooldown_until,
                   recent_requests, rl_dedup_ret, rl_calls, rl_cooldowns, rl_blocked,
                   request_timestamps, last_request_time, rl_admissions>>

\* start_cooldown(duration); duration 0 stands for None as well, both falsy
start_cooldown(duration) ==
    /\ rl_blocked = "none"
    /\ rl_cooldowns < MaxCooldowns
    /\ rl_cooldowns' = rl_cooldowns + 1
    /\ IF lock # 0
       THEN /\ rl_blocked' = "start_cooldown"
            /\ UNCHANGED cooldown_until
       ELSE /\ cooldown_until' =
                   now + (IF duration # 0 THEN duration ELSE CooldownDuration)
            /\ UNCHANGED rl_blocked
    /\ UNCHANGED <<requests_per_minute, max_concurrent_requests, lock,
                   request_timestamps, last_request_time, recent_requests,
                   active_requests, sem_value, sem_waiters, rl_pc, rl_prio,
                   rl_wake, rl_via, rl_ret, rl_admissions, rl_calls,
                   rl_dedup_ret>>

\* _clean_old_requests
clean_old_requests(rr) ==
    [h \in Signatures |->
        IF rr[h] # NoEntry /\ now - rr[h][1] < DedupWindow THEN rr[h] ELSE NoEntry]

check_dedup(h) ==
    /\ rl_blocked = "none"
    /\ IF lock # 0
       THEN /\ rl_blocked' = "check_dedup"
            /\ UNCHANGED <<recent_requests, rl_dedup_ret>>
       ELSE LET rr == clean_old_requests(recent_requests)
            IN  /\ recent_requests' = rr
                /\ rl_dedup_ret' =
                      IF rr[h] # NoEntry /\ now - rr[h][1] < DedupWindow
                         THEN rr[h][2] ELSE "None"
                /\ UNCHANGED rl_blocked
    /\ UNCHANGED <<requests_per_minute, max_concurrent_requests, lock,
                   request_timestamps, last_request_time, cooldown_until,
                   active_requests, sem_value, sem_waiters, rl_pc, rl_prio,
                   rl_wake, rl_via, rl_ret, rl_admissions, rl_calls, rl_cooldowns>>

cache_response(h, result) ==
    /\ rl_blocked = "none"
    /\ IF lock # 0
       THEN /\ rl_blocked' = "cache_response"
            /\ UNCHANGED recent_requests
       ELSE /\ recent_requests' = [recent_requests EXCEPT ![h] = <<now, result>>]
            /\ UNCHANGED rl_blocked
    /\ UNCHANGED <<requests_per_minute, max_concurrent_requests, lock,
                   request_timestamps, last_request_time, cooldown_until,
                   active_requests, sem_value, sem_waiters, rl_pc, rl_prio,
                   rl_wake, rl_via, rl_ret, rl_admissions, rl_calls, rl_cooldowns,
                   rl_dedup_ret>>

\* The instants at which the limiter's clock is observed: construction, the
\* ends of the configured delays after it, and the end of the 60-second
\* window.  asyncio.sleep may end late, so a sleeper resumes at the first
\* instant not before its deadline.
Instants ==
    {Epoch + d : d \in {0, 1, MinDelay, CooldownDuration,
                        Window - 1, Window, Window + MinDelay}}

Advance ==
    /\ \E t \in Instants : t > now /\ now' = t
    /\ UNCHANGED <<cbvars, rlvars, rmvars, rwvars>>

RLCall == \E c \in Callers, p \in Levels \cup {Unknown} :
              wait_for_capacity(c, p) /\ UNCHANGED <<now, cbvars, rmvars, rwvars>>
RLSemaphoreGranted == \E c \in Callers : SemaphoreGranted(c) /\ UNCHANGED <<now, cbvars, rmvars, rwvars>>
RLSleepOver == \E c \in Callers : SleepOver(c) /\ UNCHANGED <<now, cbvars, rmvars, rwvars>>
RLCancel == \E c \in Callers : Cancel(c) /\ UNCHANGED <<now, cbvars, rmvars, rwvars>>
RLStartCooldown == \E d \in 0..MaxDuration : start_cooldown(d) /\ UNCHANGED <<now, cbvars, rmvars, rwvars>>
RLCheckDedup == \E h \in Signatures : check_dedup(h) /\ UNCHANGED <<now, cbvars, rmvars, rwvars>>
RLCacheResponse == \E h \in Signatures : cache_response(h, "res") /\ UNCHANGED <<now, cbvars, rmvars, rwvars>>

NextRL ==
    \/ Advance
    \/ RLCall
    \/ RLSemaphoreGranted
    \/ RLSleepOver
    \/ RLCancel
    \/ RLStartCooldown

(***************************************************************************)
(* RequestManager and RequestCache.  Everything runs on one event loop; an  *)
(* action is the run of one coroutine from one suspension to the next.      *)
(* Time is counted in tenths of a second.                                   *)
(***************************************************************************)
\* RequestPriority, in the order of the enum
RequestPriority == <<HIGH, MEDIUM, LOW>>
\* the payloads submitted, and len(str(payload)) of each
Payloads == {"a", "b", "c"}
PayloadChars == [a |-> 8, b |-> 20, c |-> 4]
\* the priorities submitted
SubmitPriorities == {HIGH, LOW}
\* avg_processing_time the monitor may report
Latencies == {0, 10, 30}
None == "None"
\* what the injected batch processor may do with a batch: return a result
\* per request, return a null marker per request, or raise
ProcessorOutcomes == {"ok", "null", "raise"}
ResultOf == [a |-> "result_a", b |-> "result_b", c |-> "result_c"]

\* _generate_cache_key: the digest of method, payload, priority and source;
\* requests differ in payload and priority only
generate_cache_key(req) == <<req.payload, req.priority>>
CacheKeys == Payloads \X {HIGH, MEDIUM, LOW}

\* _estimate_tokens
estimate_tokens(req) == PayloadChars[req.payload] \div 4

InitRM ==
    /\ cache = [k \in CacheKeys |-> NoEntry]
    /\ queues = [p \in {HIGH, MEDIUM, LOW} |-> <<>>]
    /\ max_batch_size = MaxBatchSize
    /\ is_running = FALSE
    /\ processing_tasks = <<>>
    /\ current_latency \in Latencies
    /\ requests = <<>>
    /\ received = <<>>
    /\ batches = <<>>
    /\ proc_result = <<>>
    /\ stop_pc = "idle"
    /\ stop_awaited = {}
    /\ cleared = 0
    /\ stops = 0

\* RequestCache.get: the value returned, and the cache it leaves
\* request_manager.py:97 with the test left out
FreshAlways(entry) == TRUE

\* request_manager.py:97
Fresh(entry) == now - entry[1] <= Ttl

cache_get(c, k) ==
    IF c[k] # NoEntry /\ Fresh(c[k]) THEN c[k][2] ELSE None
cache_after_get(c, k) ==
    IF c[k] # NoEntry /\ ~Fresh(c[k]) THEN [c EXCEPT ![k] = NoEntry] ELSE c

\* RequestCache.set
cache_set(c, k, response) == [c EXCEPT ![k] = <<now, response>>]

\* request_manager.py:209-210 leaving the loop after its first round
CacheResultsFirstOnly(c, batch, results) ==
    IF batch = <<>> \/ results = <<>> THEN c
    ELSE cache_set(c, generate_cache_key(requests[Head(batch)]), Head(results))

\* for request, result in zip(batch.requests, results): cache.set(...)
RECURSIVE CacheResults(_, _, _)
CacheResults(c, batch, results) ==
    IF batch = <<>> \/ results = <<>> THEN c
    ELSE CacheResults(cache_set(c, generate_cache_key(requests[Head(batch)]),
                                Head(results)),
                      Tail(batch), Tail(results))

\* the batch size _collect_batch sets from the latency signal
\* (request_manager.py:234-254)
AdaptedBatchSize(base) ==
    IF current_latency < LowLatency THEN (base * 3) \div 2
    ELSE IF current_latency > HighLatency
         THEN IF (base * 3) \div 4 < MinBatchSize THEN MinBatchSize
              ELSE (base * 3) \div 4
    ELSE base

\* request_manager.py:277 with the put left out
PutBackDropped(q, request) == q

\* `await queue.put(request)`: the request goes to the end of the queue
PutBack(q, request) == Append(q, request)

\* The fill loop of _collect_batch (request_manager.py:263-283), run until
\* it leaves the loop ("flush") or awaits asyncio.sleep(0.1) ("sleep")
RECURSIVE FillLoop(_, _, _, _, _)
FillLoop(q, batch, tokens, start, mbs) ==
    LET out(status, q2, b2, t2) ==
            [status |-> status, q |-> q2, batch |-> b2, tokens |-> t2,
             start |-> start, mbs |-> mbs]
    IN  IF ~(/\ Len(batch) < mbs
             /\ tokens < MaxTokenLimit
             /\ now - start < MaxWaitTime)
        THEN out("flush", q, batch, tokens)
        ELSE IF q = <<>>
        THEN IF Len(batch) >= MinBatchSize
                THEN out("flush", q, batch, tokens)
                ELSE out("sleep", q, batch, tokens)
        ELSE LET t == estimate_tokens(requests[Head(q)])
             IN  IF tokens + t <= MaxTokenLimit
                 THEN FillLoop(Tail(q), Append(batch, Head(q)), tokens + t, start, mbs)
                 ELSE \* put back, at the end of the queue
                      out("flush", PutBack(Tail(q), Head(q)), batch, tokens)

\* the first request has arrived: request_manager.py:257-262 and the loop
FirstRequest(q, mbs) ==
    FillLoop(Tail(q), <<Head(q)>>, estimate_tokens(requests[Head(q)]), now, mbs)

\* _collect_batch from its start, run until it awaits queue.get() on an
\* empty queue ("get"), sleeps or flushes
CollectBatch(q, base) ==
    LET mbs == AdaptedBatchSize(base)
    IN  IF q = <<>>
        THEN [status |-> "get", q |-> q, batch |-> <<>>, tokens |-> 0,
              start |-> 0, mbs |-> mbs]
        ELSE FirstRequest(q, mbs)

NewTask(p) ==
    [priority |-> p, pc |-> "new", batch |-> <<>>, tokens |-> 0, start |-> 0, wake |-> 0]

TaskAfter(t, res) ==
    CASE res.status = "get" ->
            [t EXCEPT !.pc = "get", !.batch = <<>>, !.tokens = 0, !.start = 0, !.wake = 0]
      [] res.status = "sleep" ->
            [t EXCEPT !.pc = "fill_sleep", !.batch = res.batch, !.tokens = res.tokens,
                      !.start = res.start, !.wake = now + FillSleep]
      [] OTHER ->  \* _collect_batch returns; the loop awaits batch_processor(batch)
            [t EXCEPT !.pc = "processing", !.batch = res.batch, !.tokens = res.tokens,
                      !.start = 0, !.wake = 0]

\* what the loops share and change
Shared ==
    [tasks |-> processing_tasks, queues |-> queues, mbs |-> max_batch_size,
     received |-> received, batches |-> batches]

Commit(st) ==
    /\ processing_tasks' = st.tasks
    /\ queues' = st.queues
    /\ max_batch_size' = st.mbs
    /\ received' = st.received
    /\ batches' = st.batches

\* task i goes on as res says
Proceed(st, i, res) ==
    [tasks |-> [st.tasks EXCEPT ![i] = TaskAfter(@, res)],
     queues |-> [st.queues EXCEPT ![st.tasks[i].priority] = res.q],
     mbs |-> res.mbs,
     received |-> IF res.status = "flush" THEN st.received \o res.batch
                  ELSE st.received,
     batches |-> IF res.status = "flush"
                 THEN Append(st.batches,
                             [requests |-> res.batch, total_tokens |-> res.tokens,
                              waited |-> now - res.start, starved |-> res.q = <<>>,
                              max_batch_size |-> res.mbs])
                 ELSE st.batches]

\* `while self.is_running:` is evaluated by task i
LoopAgain(st, i, running) ==
    IF running
    THEN Proceed(st, i, CollectBatch(st.queues[st.tasks[i].priority], st.mbs))
    ELSE [st EXCEPT !.tasks[i] = [NewTask(@.priority) EXCEPT !.pc = "finished"]]

\* start_processing, called with is_running false
StartedTasks ==
    processing_tasks \o [n \in 1..Len(RequestPriority) |-> NewTask(RequestPriority[n])]

\* request_manager.py:156 with every request put on the HIGH queue
QueueForHighAlways(priority) == HIGH

\* the queue submit_request puts a request on: self.queues[request.priority]
QueueFor(priority) == priority

\* submit_request(Request(payload, priority)), run up to the await of
\* asyncio.sleep(0.1) in _wait_for_result, or to its return on a cache hit
submit_request(payload, priority) ==
    LET req == [payload |-> payload, priority |-> priority, timestamp |-> now]
        k == generate_cache_key(req)
        cached_response == cache_get(cache, k)
        r == Len(requests) + 1
    IN  /\ cache' = cache_after_get(cache, k)
        /\ proc_result' = Append(proc_result, "pending")
        /\ IF cached_response # None
           THEN /\ requests' = Append(requests,
                       req @@ [pc |-> "done", wake |-> 0, hit |-> TRUE,
                               ret |-> cached_response])
                /\ UNCHANGED <<queues, is_running, processing_tasks>>
           ELSE /\ requests' = Append(requests,
                       req @@ [pc |-> "wait", wake |-> now + SubmitWait, hit |-> FALSE,
                               ret |-> "pending"])
                /\ queues' = [queues EXCEPT ![QueueFor(priority)] = Append(@, r)]
                /\ is_running' = TRUE
                /\ processing_tasks' =
                       IF is_running THEN processing_tasks ELSE StartedTasks
        /\ UNCHANGED <<max_batch_size, current_latency, received, batches>>

\* _wait_for_result: the sleep is over, None is returned
wait_for_result(r) ==
    /\ requests[r].pc = "wait"
    /\ now >= requests[r].wake
    /\ requests' = [requests EXCEPT ![r].pc = "done", ![r].ret = None, ![r].wake = 0]
    /\ UNCHANGED <<cache, queues, max_batch_size, is_running, processing_tasks,
                   current_latency, received, batches, proc_result>>

\* The tasks created by one start_processing run for the first time.  The
\* event loop runs them one after the other, in the order of creation, each
\* up to its first suspension.
\* (what task i leaves is worked out once, then handed on: `after` ranges
\* over a set of one element)
RECURSIVE BeginFrom(_, _, _)
BeginFrom(st, i, running) ==
    IF i > Len(st.tasks) THEN st
    ELSE CHOOSE end \in
             {BeginFrom(after, i + 1, running) :
                 after \in {IF st.tasks[i].pc = "new" THEN LoopAgain(st, i, running)
                            ELSE st}} : TRUE

TasksBegin ==
    /\ \E i \in DOMAIN processing_tasks : processing_tasks[i].pc = "new"
    /\ \E end \in {BeginFrom(Shared, 1, is_running)} : Commit(end)
    /\ UNCHANGED <<cache, is_running, current_latency, requests, proc_result>>

\* `await queue.get()` returns the first request
QueueGet(i) ==
    /\ processing_tasks[i].pc = "get"
    /\ queues[processing_tasks[i].priority] # <<>>
    /\ Commit(Proceed(Shared, i,
                      FirstRequest(queues[processing_tasks[i].priority], max_batch_size)))
    /\ UNCHANGED <<cache, is_running, current_latency, requests, proc_result>>

\* the asyncio.sleep(0.1) of the fill loop is over
FillSleepOver(i) ==
    LET t == processing_tasks[i]
    IN  /\ t.pc = "fill_sleep"
        /\ now >= t.wake
        /\ Commit(Proceed(Shared, i,
                          FillLoop(queues[t.priority], t.batch, t.tokens, t.start,
                                   max_batch_size)))
        /\ UNCHANGED <<cache, is_running, current_latency, requests, proc_result>>

\* the results of the processor for a batch
Results(batch, outcome) ==
    [n \in 1..Len(batch) |->
        IF outcome = "ok" THEN ResultOf[requests[batch[n]].payload] ELSE None]

\* `await self.batch_processor(batch)` is over: the results are cached and
\* the loop goes round, or the exception is logged and the task sleeps 1 s
ProcessorDone(i, outcome) ==
    LET t == processing_tasks[i]
        results == Results(t.batch, outcome)
    IN  /\ t.pc = "processing"
        /\ UNCHANGED <<is_running, current_latency, requests>>
        /\ IF outcome = "raise"
           THEN /\ processing_tasks' = [processing_tasks EXCEPT
                       ![i] = [NewTask(t.priority) EXCEPT
                                  !.pc = "error_sleep", !.wake = now + ErrorSleep]]
                /\ UNCHANGED <<cache, queues, max_batch_size, received, batches,
                               proc_result>>
           ELSE /\ cache' = CacheResults(cache, t.batch, results)
                /\ proc_result' =
                       [r \in DOMAIN proc_result |->
                           IF \E n \in DOMAIN t.batch : t.batch[n] = r
                              THEN results[CHOOSE n \in DOMAIN t.batch : t.batch[n] = r]
                              ELSE proc_result[r]]
                /\ Commit(LoopAgain(Shared, i, is_running))

\* the asyncio.sleep(1) after a failed batch is over
ErrorSleepOver(i) ==
    /\ processing_tasks[i].pc = "error_sleep"
    /\ now >= processing_tasks[i].wake
    /\ Commit(LoopAgain(Shared, i, is_running))
    /\ UNCHANGED <<cache, is_running, current_latency, requests, proc_result>>

\* self.processing_tasks: the tasks created and not cleared
Listed == {i \in DOMAIN processing_tasks : i > cleared}

\* asyncio.gather(*tasks) is done when every task has finished
GatherDone(tasks) == \A i \in tasks : processing_tasks[i].pc = "finished"

\* start_processing, called from outside; with is_running true it does
\* nothing
start_processing ==
    /\ ~is_running
    /\ is_running' = TRUE
    /\ processing_tasks' = StartedTasks
    /\ UNCHANGED <<cache, queues, max_batch_size, current_latency, requests,
                   received, batches, proc_result, stopvars>>

\* stop_processing, run up to the await of asyncio.gather; gather of no task
\* is done at once, and the call returns
stop_processing ==
    /\ stop_pc = "idle"
    /\ stops < MaxStops
    /\ stops' = stops + 1
    /\ is_running' = FALSE
    /\ IF Listed = {}
       THEN UNCHANGED <<stop_pc, stop_awaited>>
       ELSE stop_pc' = "gather" /\ stop_awaited' = Listed
    /\ UNCHANGED <<cache, queues, max_batch_size, processing_tasks,
                   current_latency, requests, received, batches, proc_result,
                   cleared>>

\* the gather of stop_processing is over: processing_tasks.clear() and return
gather_returns ==
    /\ stop_pc = "gather"
    /\ GatherDone(stop_awaited)
    /\ stop_pc' = "idle"
    /\ stop_awaited' = {}
    /\ cleared' = Len(processing_tasks)
    /\ UNCHANGED <<cache, queues, max_batch_size, is_running, processing_tasks,
                   current_latency, requests, received, batches, proc_result,
                   stops>>

\* deadlines of the sleeps in progress
Deadlines ==
    {processing_tasks[i].wake : i \in DOMAIN processing_tasks}
        \cup {requests[r].wake : r \in DOMAIN requests}

\* A step of the event loop is ready: a created task has not run yet, a
\* sleep is over, or a request waits in the queue of a task at queue.get().
\* The loop runs what is ready before the clock reaches the next instant.
Ready ==
    \/ \E i \in DOMAIN processing_tasks :
          LET t == processing_tasks[i]
          IN  \/ t.pc = "new"
              \/ t.pc \in {"fill_sleep", "error_sleep"} /\ now >= t.wake
              \/ t.pc = "get" /\ queues[t.priority] # <<>>
    \/ \E r \in DOMAIN requests : requests[r].pc = "wait" /\ now >= requests[r].wake
    \/ stop_pc = "gather" /\ GatherDone(stop_awaited)

\* the clock ticks, or moves on to the deadline of a sleep
RMTick ==
    /\ ~Ready
    /\ \E t \in {now + 1} \cup Deadlines :
          /\ t > now
          /\ t <= Epoch + RMMaxElapsed \/ t \in Deadlines
          /\ \A d \in Deadlines : d > now => t <= d
          /\ now' = t
    /\ UNCHANGED <<cbvars, rlvars, rmvars, rwvars>>

RMSubmit == \E payload \in Payloads, priority \in SubmitPriorities :
                /\ Len(requests) < MaxRequests
                /\ submit_request(payload, priority)
                /\ UNCHANGED <<now, cbvars, rlvars, rwvars, stopvars>>
RMWaitForResult == \E r \in DOMAIN requests :
                      wait_for_result(r) /\ UNCHANGED <<now, cbvars, rlvars, rwvars, stopvars>>
RMTasksBegin == TasksBegin /\ UNCHANGED <<now, cbvars, rlvars, rwvars, stopvars>>
RMQueueGet == \E i \in DOMAIN processing_tasks :
                 QueueGet(i) /\ UNCHANGED <<now, cbvars, rlvars, rwvars, stopvars>>
RMFillSleepOver == \E i \in DOMAIN processing_tasks :
                      FillSleepOver(i) /\ UNCHANGED <<now, cbvars, rlvars, rwvars, stopvars>>
RMProcessorDone == \E i \in DOMAIN processing_tasks, outcome \in ProcessorOutcomes :
                      ProcessorDone(i, outcome) /\ UNCHANGED <<now, cbvars, rlvars, rwvars, stopvars>>
RMErrorSleepOver == \E i \in DOMAIN processing_tasks :
                       ErrorSleepOver(i) /\ UNCHANGED <<now, cbvars, rlvars, rwvars, stopvars>>

NextRM ==
    \/ RMTick
    \/ RMSubmit
    \/ RMWaitForResult
    \/ RMTasksBegin
    \/ RMQueueGet
    \/ RMFillSleepOver
    \/ RMProcessorDone
    \/ RMErrorSleepOver

(***************************************************************************)
(* BackoffConfig.exponential_backoff: the wrapper around func.  One        *)
(* CircuitBreaker (instance) belongs to the decorated function; the        *)
(* wrapper is called by one coroutine at a time.                           *)
(***************************************************************************)
\* what an attempt of func may do: return, or raise one of these errors
Result == "result"
Errors == {"429 too many requests", "503 service unavailable", "malformed payload"}
FuncOutcomes == {"ok"} \cup Errors
\* the terms of is_retryable_error that str(e).lower() contains
TermsIn == [e \in Errors |->
              CASE e = "429 too many requests" -> {"429"}
                [] e = "503 service unavailable" -> {"503", "unavailable"}
                [] OTHER -> {}]
RetryableTerms ==
    {"429", "rate limit", "quota", "resource exhausted", "500", "502", "503",
     "504", "timeout", "connection", "network", "server error", "unavailable",
     "overloaded"}
is_retryable_error(e) == TermsIn[e] \cap RetryableTerms # {}
\* raise Exception("Circuit breaker is open")
CircuitOpen == "Circuit breaker is open"
NoError == "None"
\* the caller of the rate limiter the wrapper is
WrapperCaller == 1

InitRW ==
    /\ w_rate_limiter \in BOOLEAN
    /\ w_max_tries \in 1..MaxTries
    /\ w_max_time \in {0, MaxTime}
    /\ w_pc = "idle"
    /\ w_attempt = 0
    /\ w_last_error = NoError
    /\ w_start_time = 0
    /\ w_wake = 0
    /\ w_ret = "none"
    /\ w_calls = 0
    /\ w_outcomes = <<>>
    /\ w_waits = <<>>
    /\ w_recorded = 0
    /\ w_asked = 0

\* the call of wrapper() ends with ret, returned or raised
Finish(ret) ==
    /\ w_pc' = "idle"
    /\ w_ret' = ret
    /\ w_wake' = 0

\* backoff_config.py:143-145 without the min
BackoffWaitUncapped(attempt) == InitialWait * (Factor ^ attempt)

\* wait = min(initial_wait * (cls.DEFAULT_FACTOR**attempt), max_wait)
BackoffWait(attempt) ==
    IF InitialWait * (Factor ^ attempt) < MaxWait
    THEN InitialWait * (Factor ^ attempt) ELSE MaxWait

\* backoff_config.py:138 with the test left out
LastAttemptNever(attempt) == FALSE

\* `attempt == max_tries - 1`
LastAttempt(attempt) == attempt = w_max_tries - 1

\* `"429" in error_str and rate_limiter`
CooldownAsked(e) == "429" \in TermsIn[e] /\ w_rate_limiter

\* backoff_config.py:117 with the test left out
DeniedNever(ret) == FALSE

\* `if not await instance.circuit_breaker.allow_request():`
Denied(ret) == ~ret

\* backoff_config.py:120 with the test always false
AdmissionNeededNever == FALSE

\* `if rate_limiter:` before the attempts
AdmissionNeeded == w_rate_limiter

\* wrapper(*args): the breaker is asked, then the rate limiter if there is
\* one; the call runs up to its first suspension
WrapperCall ==
    /\ w_pc = "idle"
    /\ w_calls < MaxWrapperCalls
    /\ w_calls' = w_calls + 1
    /\ w_outcomes' = <<>>
    /\ w_waits' = <<>>
    /\ w_recorded' = 0
    /\ w_attempt' = 0
    /\ w_last_error' = NoError
    /\ allow_request
    /\ UNCHANGED <<w_rate_limiter, w_max_tries, w_max_time>>
    /\ IF Denied(cb_ret')
       THEN /\ Finish(CircuitOpen)
            /\ w_asked' = 0
            /\ UNCHANGED <<w_start_time, rlvars>>
       ELSE IF AdmissionNeeded
       THEN /\ wait_for_capacity(WrapperCaller, MEDIUM)
            /\ w_asked' = 1
            /\ w_pc' = "capacity"
            /\ UNCHANGED <<w_start_time, w_wake, w_ret>>
       ELSE /\ w_asked' = 0
            /\ w_pc' = "calling"
            /\ w_start_time' = now
            /\ UNCHANGED <<w_wake, w_ret, rlvars>>

\* `await rate_limiter.wait_for_capacity()` is over: the attempts begin, or
\* the exception of the limiter leaves the wrapper
CapacityReturned ==
    /\ w_pc = "capacity"
    /\ rl_pc[WrapperCaller] = "idle"
    /\ IF rl_ret = "true"
       THEN /\ w_pc' = "calling"
            /\ w_start_time' = now
            /\ UNCHANGED <<w_wake, w_ret>>
       ELSE /\ Finish(rl_ret)
            /\ UNCHANGED w_start_time
    /\ UNCHANGED <<cbvars, rlvars, w_rate_limiter, w_max_tries, w_max_time,
                   w_attempt, w_last_error, w_calls, w_outcomes, w_waits,
                   w_recorded, w_asked>>

\* `await func(*args, **kwargs)` is over, with a result or an exception; the
\* wrapper runs on to its return, its raise or its asyncio.sleep(wait)
FuncDone(outcome) ==
    /\ w_pc = "calling"
    /\ w_outcomes' = Append(w_outcomes, outcome)
    /\ w_recorded' = w_recorded + 1
    /\ UNCHANGED <<w_rate_limiter, w_max_tries, w_max_time, w_attempt,
                   w_start_time, w_calls, w_asked>>
    /\ IF outcome = "ok"
       THEN /\ record_success
            /\ Finish(Result)
            /\ UNCHANGED <<w_last_error, w_waits, rlvars>>
       ELSE /\ w_last_error' = outcome
            /\ record_failure
            /\ IF CooldownAsked(outcome)
                  THEN start_cooldown(0)
                  ELSE UNCHANGED rlvars
            /\ IF LastAttempt(w_attempt)
                  THEN /\ Finish(outcome)
                       /\ UNCHANGED w_waits
                  ELSE /\ w_waits' = Append(w_waits, BackoffWait(w_attempt))
                       /\ w_pc' = "sleeping"
                       /\ w_wake' = now + BackoffWait(w_attempt)
                       /\ UNCHANGED w_ret

\* asyncio.sleep(wait) is over: max_time is tested, then the loop goes round
BackoffOver ==
    /\ w_pc = "sleeping"
    /\ now >= w_wake
    /\ IF w_max_time # 0 /\ now - w_start_time > w_max_time
       THEN /\ Finish(w_last_error)
            /\ UNCHANGED w_attempt
       ELSE /\ w_attempt' = w_attempt + 1
            /\ w_pc' = "calling"
            /\ w_wake' = 0
            /\ UNCHANGED w_ret
    /\ UNCHANGED <<cbvars, rlvars, w_rate_limiter, w_max_tries, w_max_time,
                   w_last_error, w_start_time, w_calls, w_outcomes, w_waits,
                   w_recorded, w_asked>>

\* deadlines of the sleeps of the wrapper and of its wait_for_capacity
RWDeadlines ==
    (IF w_pc = "sleeping" THEN {w_wake} ELSE {})
        \cup {rl_wake[c] : c \in {d \in Callers : rl_pc[d] \in Sleeping}}

\* a sleep is over, or wait_for_capacity has returned: the event loop runs
\* what is ready before the clock reaches the next instant
RWReady ==
    \/ w_pc = "sleeping" /\ now >= w_wake
    \/ w_pc = "capacity" /\ rl_pc[WrapperCaller] = "idle"
    \/ \E c \in Callers : rl_pc[c] \in Sleeping /\ now >= rl_wake[c]

RWTick ==
    /\ ~RWReady
    /\ \E t \in {now + 1} \cup RWDeadlines :
          /\ t > now
          /\ t <= Epoch + RWMaxElapsed \/ t \in RWDeadlines
          /\ \A d \in RWDeadlines : d > now => t <= d
          /\ now' = t
    /\ UNCHANGED <<cbvars, rlvars, rmvars, rwvars>>

RWCall == WrapperCall /\ UNCHANGED <<now, rmvars>>
RWCapacityReturned == CapacityReturned /\ UNCHANGED <<now, rmvars>>
RWFuncDone == \E outcome \in FuncOutcomes : FuncDone(outcome) /\ UNCHANGED <<now, rmvars>>
RWBackoffOver == BackoffOver /\ UNCHANGED <<now, rmvars>>
\* the limiter resumes the wrapper's wait_for_capacity
RWLimiterSleepOver == SleepOver(WrapperCaller) /\ UNCHANGED <<now, cbvars, rmvars, rwvars>>

NextRW ==
    \/ RWTick
    \/ RWCall
    \/ RWCapacityReturned
    \/ RWFuncDone
    \/ RWBackoffOver
    \/ RWLimiterSleepOver

CBRecordSuccess == record_success /\ UNCHANGED <<now, rlvars, rmvars, rwvars>>
CBRecordFailure == record_failure /\ UNCHANGED <<now, rlvars, rmvars, rwvars>>
CBAllowRequest == allow_request /\ UNCHANGED <<now, rlvars, rmvars, rwvars>>

\* Each specification starts its component as constructed and leaves the
\* other two untouched, in one fixed configuration
IdleCB == InitCB
IdleRL == InitRL /\ max_concurrent_requests = 1
IdleRM == InitRM /\ current_latency = 0
IdleRW == InitRW /\ ~w_rate_limiter /\ w_max_tries = MaxTries /\ w_max_time = 0

InitOfCB == now = Epoch /\ InitCB /\ IdleRL /\ IdleRM /\ IdleRW
InitOfRL == now = Epoch /\ IdleCB /\ InitRL /\ IdleRM /\ IdleRW
InitOfRM == now = Epoch /\ IdleCB /\ IdleRL /\ InitRM /\ IdleRW
InitOfRW == now = Epoch /\ InitCB /\ IdleRL /\ IdleRM /\ InitRW
\* RequestManager(batch_processor): monitor = None, the latency read is 0.0
InitOfRMNoMonitor == InitOfRM /\ current_latency = 0

NextCB ==
    \/ Tick
    \/ CBRecordSuccess
    \/ CBRecordFailure
    \/ CBAllowRequest

SpecCB == InitOfCB /\ [][NextCB]_vars

SpecRL == InitOfRL /\ [][NextRL]_vars

SpecRM == InitOfRM /\ [][NextRM]_vars

SpecRW == InitOfRW /\ [][NextRW]_vars

\* A burst: up to MaxBurst requests are submitted and batched within one
\* tenth of a second, so that no sleep of the manager ends
RMBurstSubmit == \E payload \in Payloads, priority \in SubmitPriorities :
                     /\ Len(requests) < MaxBurst
                     /\ submit_request(payload, priority)
                     /\ UNCHANGED <<now, cbvars, rlvars, rwvars, stopvars>>

NextRMBurst ==
    \/ RMBurstSubmit
    \/ RMTasksBegin
    \/ RMQueueGet
    \/ RMProcessorDone

SpecRMBurst == InitOfRM /\ [][NextRMBurst]_vars

\* The cache over time: requests of one priority, with a payload that is
\* flushed at once and one that waits for max_wait_time, are submitted,
\* processed and looked up again before and after the TTL
CachePayloads == {"b", "c"}

RMCacheSubmit == \E payload \in CachePayloads :
                     /\ Len(requests) < MaxLookups
                     /\ submit_request(payload, HIGH)
                     /\ UNCHANGED <<now, cbvars, rlvars, rwvars, stopvars>>

NextRMCache ==
    \/ RMTick
    \/ RMCacheSubmit
    \/ RMWaitForResult
    \/ RMTasksBegin
    \/ RMQueueGet
    \/ RMFillSleepOver
    \/ RMProcessorDone
    \/ RMErrorSleepOver

SpecRMCache == InitOfRM /\ [][NextRMCache]_vars

\* Deferral: requests of one priority, one of them too large for what is
\* left of the token budget, are submitted as the manager starts, and the
\* collector is followed for as long as it runs
RMDeferSubmit == \E payload \in CachePayloads :
                     /\ now = Epoch
                     /\ Len(requests) < MaxDeferred
                     /\ submit_request(payload, HIGH)
                     /\ UNCHANGED <<now, cbvars, rlvars, rwvars, stopvars>>

NextRMDefer ==
    \/ RMTick
    \/ RMDeferSubmit
    \/ RMWaitForResult
    \/ RMTasksBegin
    \/ RMQueueGet
    \/ RMFillSleepOver
    \/ RMProcessorDone
    \/ RMErrorSleepOver

SpecRMDefer == InitOfRMNoMonitor /\ [][NextRMDefer]_vars

\* The event loop runs every coroutine that is ready, the clock goes on and
\* the batch processor answers
SpecRMDeferFair ==
    /\ SpecRMDefer
    /\ WF_vars(RMTick)
    /\ WF_vars(RMWaitForResult)
    /\ WF_vars(RMTasksBegin)
    /\ WF_vars(RMQueueGet)
    /\ WF_vars(RMFillSleepOver)
    /\ WF_vars(RMProcessorDone)
    /\ WF_vars(RMErrorSleepOver)

\* Stopping and restarting: a manager without monitor; requests are
\* submitted, and start_processing and stop_processing are called, in any
\* order
StopPayloads == {"c"}

RMStopSubmit == \E payload \in StopPayloads, priority \in SubmitPriorities :
                    /\ Len(requests) < MaxStopRequests
                    /\ submit_request(payload, priority)
                    /\ UNCHANGED <<now, cbvars, rlvars, rwvars, stopvars>>
RMStartProcessing == start_processing /\ UNCHANGED <<now, cbvars, rlvars, rwvars>>
RMStopProcessing == stop_processing /\ UNCHANGED <<now, cbvars, rlvars, rwvars>>
RMGatherReturns == gather_returns /\ UNCHANGED <<now, cbvars, rlvars, rwvars>>

NextRMStop ==
    \/ RMTick
    \/ RMStopSubmit
    \/ RMWaitForResult
    \/ RMStartProcessing
    \/ RMStopProcessing
    \/ RMGatherReturns
    \/ RMTasksBegin
    \/ RMQueueGet
    \/ RMFillSleepOver
    \/ RMProcessorDone
    \/ RMErrorSleepOver

SpecRMStop == InitOfRMNoMonitor /\ [][NextRMStop]_vars

\* The event loop runs every coroutine that is ready, the clock goes on, the
\* batch processor answers; nothing obliges anyone to call the manager
SpecRMStopFair ==
    /\ SpecRMStop
    /\ WF_vars(RMTick)
    /\ WF_vars(RMWaitForResult)
    /\ WF_vars(RMGatherReturns)
    /\ WF_vars(RMTasksBegin)
    /\ WF_vars(RMQueueGet)
    /\ WF_vars(RMFillSleepOver)
    /\ WF_vars(RMProcessorDone)
    /\ WF_vars(RMErrorSleepOver)

\* The dedup cache of the limiter.  It shares nothing with admission control
\* but the lock, so its operations are explored on their own, next to the
\* callers that may hold the lock.
NextRLDedup ==
    \/ Advance
    \/ RLCall
    \/ RLSemaphoreGranted
    \/ RLSleepOver
    \/ RLCancel
    \/ RLCheckDedup
    \/ RLCacheResponse

SpecRLDedup == InitOfRL /\ [][NextRLDedup]_vars


(***************************************************************************)
(* Claims about the CircuitBreaker, checked under SpecCB                   *)
(***************************************************************************)
\* C8: a record_failure in Closed opens the breaker exactly when the number
\* of consecutive failures (those recorded since the latest record_success,
\* or since creation) reaches failure_threshold.
C8_OpensOnConsecutiveFailures ==
    [][(state = CLOSED /\ cb_consec' = cb_consec + 1)
          => ((state' = OPEN) <=> (cb_consec' >= FailureThreshold))]_vars

\* C9: in Open, allow_request returns false and leaves the breaker Open
\* while less than reset_timeout has elapsed since the last recorded
\* failure; once reset_timeout has elapsed it returns true and moves the
\* breaker to HalfOpen.
C9_OpenAdmission ==
    [][(cb_seq' # cb_seq /\ state = OPEN)
          => IF now - last_failure_time < ResetTimeout
                THEN cb_ret' = FALSE /\ state' = OPEN
                ELSE cb_ret' = TRUE /\ state' = HALF_OPEN]_vars

\* C9 witness: the breaker was opened, reset_timeout went by, and the
\* allow_request made then was granted and started a half-open episode.
C9_Witness ==
    /\ state = HALF_OPEN
    /\ cb_ret = TRUE
    /\ cb_probes = 1
    /\ failures >= FailureThreshold
    /\ now - last_failure_time = ResetTimeout

\* C10: within one half-open episode the allow_request calls that return
\* true, the one that caused the Open -> HalfOpen transition included, are
\* at most half_open_max_calls.
C10_HalfOpenProbesBounded ==
    state = HALF_OPEN => cb_probes <= HalfOpenMaxCalls

\* C11: from HalfOpen the next recorded outcome decides the state:
\* record_success closes the breaker with the failure counter and the
\* half-open call counter at 0, and any record_failure opens it; a closed
\* breaker is opened only with failure_threshold failures on the counter,
\* so after the reset that many fresh failures are needed.
C11_HalfOpenOutcomeDecides ==
    [][/\ (state = HALF_OPEN /\ CBRecordSuccess)
            => (state' = CLOSED /\ failures' = 0 /\ half_open_calls' = 0)
       /\ (state = HALF_OPEN /\ CBRecordFailure) => state' = OPEN
       /\ (state = CLOSED /\ CBRecordFailure /\ state' = OPEN)
            => failures' >= FailureThreshold]_vars

\* C11 witness: a breaker that was opened by failures and then closed by a
\* success recorded in HalfOpen, its counters reset.
C11_Witness ==
    /\ state = CLOSED
    /\ failures = 0
    /\ half_open_calls = 0
    /\ last_failure_time # 0

\* C29: a record_failure received in Open leaves the state Open, adds one
\* to the failure counter and restarts the reset window: in Open,
\* allow_request returns false exactly as long as less than reset_timeout
\* has gone by since the latest failure recorded, whenever the circuit
\* opened.
C29_FailureInOpenRestartsWindow ==
    [][/\ (state = OPEN /\ cb_consec' = cb_consec + 1)
            => (/\ state' = OPEN
                /\ failures' = failures + 1
                /\ last_failure_time' = now)
       /\ (state = OPEN /\ cb_seq' # cb_seq)
            => (/\ cb_ret' = (now - last_failure_time >= ResetTimeout)
                /\ ~cb_ret' => state' = OPEN)]_vars

\* C29 witness: a failure was recorded after the circuit had opened, and an
\* allow_request made when reset_timeout had gone by since the opening, but
\* not since that failure, has just returned false.
C29_Witness ==
    /\ state = OPEN
    /\ failures > FailureThreshold
    /\ last_failure_time > cb_opened_at
    /\ cb_asked_at = now
    /\ now - cb_opened_at >= ResetTimeout
    /\ now - last_failure_time < ResetTimeout
    /\ cb_ret = FALSE


(***************************************************************************)
(* Claims about the RateLimiter, checked under SpecRL                      *)
(***************************************************************************)
QuotasPositive == \A p \in Levels : max_requests(p) >= 1

\* C3: with every priority's quota at least 1, every wait_for_capacity call
\* with a valid priority returns true and never raises; in particular the
\* event loop is never stuck acquiring the limiter's mutex while the holder
\* of the mutex is suspended in a sleep (a state that nothing can leave:
\* the holder resumes only when the stuck thread runs the event loop again).
C3_NeverStuckNeverRaises ==
    QuotasPositive => (rl_blocked = "none" /\ rl_ret # "IndexError")

\* callers that hold a slot of request_semaphore
SlotHolders == {c \in Callers : rl_pc[c] \in Sleeping \cup {"lock_blocked"}}

\* C4: the callers inside wait_for_capacity that hold a concurrency slot are
\* at most max_concurrent_requests, and active_requests, the count the
\* limiter keeps of them, stays between 0 and max_concurrent_requests, also
\* after a caller has left by cancellation.
C4_ConcurrencyBounded ==
    /\ Cardinality(SlotHolders) <= max_concurrent_requests
    /\ active_requests \in 0..max_concurrent_requests
    /\ active_requests = Cardinality({c \in Callers : rl_pc[c] \in Sleeping})

\* C4 witness: a call was cancelled, and afterwards every slot is taken
C4_Witness ==
    /\ rl_ret = "cancelled"
    /\ active_requests >= 1
    /\ Cardinality(SlotHolders) = max_concurrent_requests

\* admissions of priority p in the 60 seconds that end at t
AdmittedIn(p, t) ==
    Cardinality({i \in DOMAIN rl_admissions :
                    /\ rl_admissions[i].p = p
                    /\ t - Window < rl_admissions[i].t
                    /\ rl_admissions[i].t <= t})

\* C5: in any rolling 60-second window the admissions granted to priority p
\* are at most int(requests_per_minute * share[p]).  (A window holding the
\* most admissions ends at one of them.)
C5_QuotaPerWindow ==
    \A p \in Levels : \A i \in DOMAIN rl_admissions :
        AdmittedIn(p, rl_admissions[i].t) <= max_requests(p)

\* C5 witness: a caller found its priority's quota used up, slept, and was
\* admitted once the window of an earlier admission of that priority was over
C5_Witness ==
    \E i, j \in DOMAIN rl_admissions :
        /\ i < j
        /\ rl_admissions[i].p = rl_admissions[j].p
        /\ rl_admissions[j].via = "sleep_quota"
        /\ rl_admissions[j].t - rl_admissions[i].t >= Window
        /\ AdmittedIn(rl_admissions[j].p, rl_admissions[j].t - 1)
              = max_requests(rl_admissions[j].p)

\* admissions of priority p in the last 60 seconds
OwnAdmissions(p) ==
    Cardinality({i \in DOMAIN rl_admissions :
                    rl_admissions[i].p = p /\ now - rl_admissions[i].t < Window})

\* C6: a caller of priority p is made to wait on quota only when at least
\* int(requests_per_minute * share[p]) admissions of priority p occurred in
\* the last 60 seconds, whatever other priorities were granted.
C6_QuotaCountsOwnPriority ==
    [][\A c \in Callers :
          (/\ rl_pc'[c] = "sleep_quota"
           /\ <<rl_pc[c], rl_wake[c]>> # <<rl_pc'[c], rl_wake'[c]>>)
          => OwnAdmissions(rl_prio'[c]) >= max_requests(rl_prio'[c])]_vars

\* C7: every admission happens at a time not earlier than the cooldown
\* deadline in force at that moment.
C7_NoAdmissionInCooldown ==
    [][Len(rl_admissions') > Len(rl_admissions) => now >= cooldown_until]_vars

\* C7 witness: start_cooldown was called, a caller slept through the
\* cooldown and was admitted at or after the deadline
C7_Witness ==
    /\ cooldown_until > Epoch
    /\ \E i \in DOMAIN rl_admissions :
          /\ rl_admissions[i].via = "sleep_cooldown"
          /\ rl_admissions[i].t >= cooldown_until

\* C25: any two successive admissions, whatever the priorities and the
\* callers, are at least min_delay_between_requests apart.
C25_MinDelayBetweenAdmissions ==
    \A i \in DOMAIN rl_admissions :
        i > 1 => rl_admissions[i].t - rl_admissions[i - 1].t >= MinDelay

\* C25 witness: a caller of another priority asked within the minimum delay
\* of an admission, slept, and was admitted exactly min_delay later.
C25_Witness ==
    \E i \in DOMAIN rl_admissions :
        /\ i > 1
        /\ rl_admissions[i].p # rl_admissions[i - 1].p
        /\ rl_admissions[i].via = "sleep_delay"
        /\ rl_admissions[i].t - rl_admissions[i - 1].t = MinDelay

----------------------------------------------------------------------------
(* RequestManager: submission and the cache *)

\* the batch processor has been handed request r
Received(r) == \E n \in DOMAIN received : received[n] = r

\* C1: on a cache miss, submit_request does not return before the batch
\* holding the request has been processed, and it returns the result the
\* processor gave for that very request.
C1_SubmitReturnsOwnResult ==
    \A r \in DOMAIN requests :
        (requests[r].pc = "done" /\ ~requests[r].hit)
            => /\ proc_result[r] # "pending"
               /\ requests[r].ret = proc_result[r]

\* C2: of two submit_request calls with the same payload and priority made
\* within the cache TTL of each other, the batch processor receives only
\* one: it is never handed both requests.
C2_IdenticalWithinTtlProcessedOnce ==
    \A r1, r2 \in DOMAIN requests :
        (/\ r1 < r2
         /\ requests[r1].payload = requests[r2].payload
         /\ requests[r1].priority = requests[r2].priority
         /\ requests[r2].timestamp - requests[r1].timestamp <= Ttl)
            => ~(Received(r1) /\ Received(r2))

\* the value the cache lookup of submit_request call r returned, reqs being
\* the calls made
Lookup(reqs, r) == IF reqs[r].hit THEN reqs[r].ret ELSE None

\* C15: RequestCache.get returns the value stored for the request's key
\* exactly when the key has an entry whose age is at most the TTL, and then
\* leaves the entry; an entry older than the TTL is not returned: the lookup
\* misses and removes it.
C15_GetReturnsFreshOnly ==
    [][Len(requests') = Len(requests) + 1
          => LET r == Len(requests')
                 k == generate_cache_key(requests'[r])
             IN  IF cache[k] # NoEntry /\ now - cache[k][1] <= Ttl
                 THEN Lookup(requests', r) = cache[k][2] /\ cache'[k] = cache[k]
                 ELSE Lookup(requests', r) = None /\ cache'[k] = NoEntry]_vars

\* C15 witness: a request was processed and its result cached; a later
\* lookup of the same key came after the TTL, missed and removed the entry.
C15_Witness ==
    \E r0, r \in DOMAIN requests :
        /\ r0 < r
        /\ generate_cache_key(requests[r0]) = generate_cache_key(requests[r])
        /\ proc_result[r0] = ResultOf[requests[r0].payload]
        /\ requests[r].timestamp - requests[r0].timestamp > Ttl
        /\ ~requests[r].hit
        /\ cache[generate_cache_key(requests[r])] = NoEntry

\* C16: whenever the cache holds an unexpired entry for the submitted
\* request, whatever the cached value (a null marker included),
\* submit_request returns the cached value at once and puts the request on
\* no queue, so that the batch processor is never handed it.
C16_HitReturnsWithoutEnqueue ==
    [][Len(requests') = Len(requests) + 1
          => LET r == Len(requests')
                 k == generate_cache_key(requests'[r])
             IN  (cache[k] # NoEntry /\ now - cache[k][1] <= Ttl)
                    => /\ requests'[r].pc = "done"
                       /\ requests'[r].ret = cache[k][2]
                       /\ queues' = queues]_vars

(* Batching, checked under SpecRMBurst *)

\* the key of the request at position n of a batch
KeyAt(batch, n) == generate_cache_key(requests[batch[n]])

\* C17: when the processor has returned the results of a batch, the cache
\* holds, for every position n of the batch, an entry for the request at n,
\* and that entry holds the result at position n: the processor's result
\* for that request (requests sharing a key share the entry).
C17_ResultsPairedByPosition ==
    [][\A i \in DOMAIN processing_tasks :
          LET batch == processing_tasks[i].batch
          IN  (/\ processing_tasks[i].pc = "processing"
               /\ \A n \in DOMAIN batch :
                     proc_result[batch[n]] = "pending"
                        /\ proc_result'[batch[n]] # "pending")
                 => \A n \in DOMAIN batch :
                       /\ cache'[KeyAt(batch, n)] # NoEntry
                       /\ (\A m \in DOMAIN batch :
                              m # n => KeyAt(batch, m) # KeyAt(batch, n))
                             => /\ cache'[KeyAt(batch, n)]
                                     = <<now, proc_result'[batch[n]]>>
                                /\ proc_result'[batch[n]]
                                     \in {ResultOf[requests[batch[n]].payload],
                                          None}]_vars

\* C17 witness: a batch of two requests with different keys was processed
\* and each key's entry holds the result of its own request.
C17_Witness ==
    \E b \in DOMAIN batches :
        LET batch == batches[b].requests
        IN  /\ Len(batch) >= 2
            /\ KeyAt(batch, 1) # KeyAt(batch, 2)
            /\ \A n \in 1..2 :
                  /\ proc_result[batch[n]] = ResultOf[requests[batch[n]].payload]
                  /\ cache[KeyAt(batch, n)] = <<now, proc_result[batch[n]]>>

\* C18: every batch _collect_batch returns has at most max_batch_size
\* requests (the value of the field as the loop last read it); it has at
\* least min_batch_size requests unless the queue was starved, and then it
\* was flushed only once max_wait_time had gone by since its first request
\* was pulled; and no batch that has min_batch_size requests is kept waiting
\* on an empty queue.
C18_BatchSizeWithinBounds ==
    /\ \A b \in DOMAIN batches :
          /\ Len(batches[b].requests) <= batches[b].max_batch_size
          /\ Len(batches[b].requests) < MinBatchSize
                => (batches[b].starved /\ batches[b].waited >= MaxWaitTime)
    /\ \A i \in DOMAIN processing_tasks :
          processing_tasks[i].pc = "fill_sleep"
             => Len(processing_tasks[i].batch) < MinBatchSize

\* C19: the total_tokens of every batch handed to the batch processor, the
\* sum of the estimates of its requests, is at most max_token_limit.
C19_TokensWithinLimit ==
    \A b \in DOMAIN batches : batches[b].total_tokens <= MaxTokenLimit

\* C20: requests of one priority are flushed in the order in which they were
\* put on the queue: a request enqueued before another of the same priority
\* is handed to the processor before it, in an earlier batch or earlier in
\* the same batch.  (Requests are numbered in the order of submission.)
C20_FifoWithinPriority ==
    \A m, n \in DOMAIN received :
        (/\ m < n
         /\ requests[received[m]].priority = requests[received[n]].priority)
            => received[m] < received[n]

(* Priorities, checked under SpecRMBurst *)

\* the queues on which request r stands
QueuesHolding(r) ==
    {p \in {HIGH, MEDIUM, LOW} : \E n \in DOMAIN queues[p] : queues[p][n] = r}

\* C21: a submitted request stands on the queue of its own priority and on
\* no other; the batch a collector is assembling holds requests of the
\* collector's priority only, and every batch returned by _collect_batch
\* holds requests of one priority.
C21_OnePriorityPerBatch ==
    /\ \A r \in DOMAIN requests : QueuesHolding(r) \subseteq {requests[r].priority}
    /\ \A i \in DOMAIN processing_tasks :
          \A n \in DOMAIN processing_tasks[i].batch :
             requests[processing_tasks[i].batch[n]].priority
                = processing_tasks[i].priority
    /\ \A b \in DOMAIN batches :
          \A m, n \in DOMAIN batches[b].requests :
             requests[batches[b].requests[m]].priority
                = requests[batches[b].requests[n]].priority

\* C21 witness: a LOW request and then two HIGH requests were submitted;
\* the batch collected from the HIGH queue holds the two HIGH requests and
\* the LOW request stands on the LOW queue or in the LOW collector's batch.
C21_Witness ==
    /\ Len(requests) = 3
    /\ requests[1].priority = LOW /\ ~requests[1].hit
    /\ requests[2].priority = HIGH
    /\ requests[3].priority = HIGH
    /\ \E b \in DOMAIN batches : batches[b].requests = <<2, 3>>
    /\ \/ QueuesHolding(1) = {LOW}
       \/ \E i \in DOMAIN processing_tasks :
             /\ processing_tasks[i].priority = LOW
             /\ processing_tasks[i].batch = <<1>>

(* No loss, checked under SpecRMDeferFair *)

C23_BatchSizeFromConfiguredBase ==
    /\ max_batch_size \in {MaxBatchSize, AdaptedBatchSize(MaxBatchSize)}
    /\ \A b \in DOMAIN batches :
          batches[b].max_batch_size = AdaptedBatchSize(MaxBatchSize)

(* Starting and stopping, checked under SpecRMStop *)

\* the _process_batch_loop tasks of priority p that have begun and have not
\* finished
LoopsRunning(p) ==
    {i \in DOMAIN processing_tasks :
        /\ processing_tasks[i].priority = p
        /\ processing_tasks[i].pc \notin {"new", "finished"}}

\* C22: at any time at most one _process_batch_loop is running for each
\* priority, however submit_request, start_processing and stop_processing
\* calls interleave.
C22_OneLoopPerPriority ==
    \A p \in {HIGH, MEDIUM, LOW} : Cardinality(LoopsRunning(p)) <= 1

\* C28: a stop_processing call that has reached its gather eventually
\* returns, and processing_tasks is then empty, whatever the queues hold and
\* with no further request submitted (unless the manager is started again
\* in the meantime).
C28_StopEventuallyReturns ==
    (stop_pc = "gather") ~> ((stop_pc = "idle" /\ Listed = {}) \/ is_running)


(***************************************************************************)
(* Claims about the retry wrapper, checked under SpecRW                    *)
(***************************************************************************)
\* attempts of func begun in the current call of wrapper()
Invocations == Len(w_outcomes) + (IF w_pc = "calling" THEN 1 ELSE 0)

\* C12: when allow_request returns false, wrapper() raises at once: func is
\* not invoked, wait_for_capacity is not called, nothing is slept, and no
\* success or failure is recorded in the breaker.
C12_DeniedRaisesAtOnce ==
    [][(w_calls' = w_calls + 1 /\ cb_ret' = FALSE)
          => /\ w_pc' = "idle"
             /\ w_ret' = CircuitOpen
             /\ Invocations' = 0
             /\ w_asked' = 0 /\ rl_calls' = rl_calls
             /\ w_waits' = <<>>
             /\ w_recorded' = 0
             /\ failures' = failures /\ state' = state
             /\ cb_consec' = cb_consec]_vars

\* C12 witness: a wrapper with a rate limiter was called while the breaker
\* was open and the call was refused.
C12_Witness ==
    /\ w_rate_limiter
    /\ w_pc = "idle"
    /\ w_ret = CircuitOpen
    /\ cb_ret = FALSE
    /\ state = OPEN

\* C13: when an attempt of func fails with an error for which
\* is_retryable_error is false, wrapper() raises that error then and there:
\* no backoff sleep, no further attempt, no failure recorded in the breaker.
C13_PermanentErrorSurfaces ==
    [][(/\ w_pc = "calling"
        /\ Len(w_outcomes') = Len(w_outcomes) + 1
        /\ w_outcomes'[Len(w_outcomes')] \in Errors
        /\ ~is_retryable_error(w_outcomes'[Len(w_outcomes')]))
          => /\ w_pc' = "idle"
             /\ w_ret' = w_outcomes'[Len(w_outcomes')]
             /\ w_waits' = w_waits
             /\ failures' = failures]_vars

\* C14: one call of wrapper() invokes func at most max_tries times; a
\* successful attempt is the last one and its result is what the call
\* returns; when max_tries attempts have all failed, the error raised is the
\* error of the last attempt.
C14_AtMostMaxTries ==
    /\ Invocations <= w_max_tries
    /\ \A i \in DOMAIN w_outcomes :
          w_outcomes[i] = "ok"
             => (i = Len(w_outcomes) /\ w_pc = "idle" /\ w_ret = Result)
    /\ (/\ w_pc = "idle"
        /\ Len(w_outcomes) = w_max_tries
        /\ \A i \in DOMAIN w_outcomes : w_outcomes[i] \in Errors)
          => w_ret = w_outcomes[Len(w_outcomes)]

\* C14 witness: a call with max_tries = MaxTries whose attempts all failed,
\* the first and the last with different errors, and which has raised.
C14_Witness ==
    /\ w_pc = "idle"
    /\ w_max_tries = MaxTries
    /\ Len(w_outcomes) = MaxTries
    /\ \A i \in DOMAIN w_outcomes : w_outcomes[i] \in Errors
    /\ w_outcomes[1] # w_outcomes[MaxTries]
    /\ w_ret = w_outcomes[MaxTries]


\* the attempts of the current call that failed, the one that exhausts
\* max_tries left out
FailedBeforeLast ==
    {i \in DOMAIN w_outcomes : w_outcomes[i] \in Errors /\ i < w_max_tries}

\* C26: after the failed attempt of zero-based index k <= max_tries - 2 the
\* wrapper sleeps min(initial_wait * factor^k, max_wait), and the next
\* attempt does not begin before the sleep is over; the waits never
\* decrease and never exceed max_wait; nothing is slept after the failure
\* of the last attempt.
C26_BackoffWaits ==
    /\ [](/\ Len(w_waits) = Cardinality(FailedBeforeLast)
          /\ \A n \in DOMAIN w_waits :
                /\ w_waits[n] = IF InitialWait * Factor ^ (n - 1) < MaxWait
                                 THEN InitialWait * Factor ^ (n - 1)
                                 ELSE MaxWait
                /\ w_waits[n] <= MaxWait
                /\ n > 1 => w_waits[n - 1] <= w_waits[n])
    /\ [][/\ (Len(w_waits') = Len(w_waits) + 1)
                => (w_pc' = "sleeping" /\ w_wake' = now + w_waits'[Len(w_waits')])
          /\ (w_pc = "sleeping" /\ w_pc' = "calling")
                => (now >= w_wake)]_vars

\* C26 witness: all max_tries = MaxTries attempts of a call failed; the
\* waits grew from initial_wait up to the last one, which max_wait cut
\* short, and the call raised without a sleep after the last attempt.
C26_Witness ==
    /\ w_pc = "idle"
    /\ Len(w_outcomes) = MaxTries
    /\ w_outcomes[MaxTries] \in Errors
    /\ Len(w_waits) = MaxTries - 1
    /\ w_waits[1] = InitialWait
    /\ w_waits[1] < w_waits[MaxTries - 1]
    /\ w_waits[MaxTries - 1] = MaxWait
    /\ InitialWait * Factor ^ (MaxTries - 2) > MaxWait


\* C27: func is never invoked while the breaker of the decorated function
\* is Open, whatever max_tries.
C27_NoInvocationWhileOpen ==
    w_pc = "calling" => state # OPEN

\* C30: with a rate limiter, a call of wrapper() that the breaker allows
\* calls wait_for_capacity exactly once, before its first attempt, and no
\* attempt begins before the admission is granted; the retries neither
\* call wait_for_capacity nor are granted any admission.
C30_OneAdmissionPerCall ==
    /\ [](w_rate_limiter
            => /\ w_asked <= 1
               /\ Invocations >= 1 => (w_asked = 1 /\ rl_ret = "true")
               /\ w_pc = "capacity" => (w_asked = 1 /\ Invocations = 0))
    /\ [][/\ (rl_calls' # rl_calls)
                => (/\ w_calls' = w_calls + 1
                    /\ rl_calls' = rl_calls + 1
                    /\ w_asked' = 1)
          /\ (Len(rl_admissions') # Len(rl_admissions))
                => (Invocations' = 0 /\ w_asked' = 1)
          /\ (w_rate_limiter /\ w_calls' = w_calls + 1 /\ cb_ret')
                => (rl_calls' = rl_calls + 1)]_vars

\* C30 witness: a call with a rate limiter was admitted once and has begun
\* its third attempt; func has been invoked more often than the limiter has
\* granted admissions.
C30_Witness ==
    /\ w_rate_limiter
    /\ w_asked = 1
    /\ Invocations = 3
    /\ Len(rl_admissions) = 1
    /\ rl_calls = 1

=============================================================================
